---- MODULE Spec2Model ----
(***************************************************************************)
(* A model of flo (ratnesh-maurya/flo): the response interpreter           *)
(* (pkg/mcp/parse.go), the document formatter, and the query flow of the   *)
(* ask command (searchAndDisplay / runAsk / fetchAcceptedAnswer /          *)
(* fetchAndRender).                                                        *)
(*                                                                         *)
(* Slices are sequences.  A *QuestionData pointer into resp.Items is the   *)
(* 1-based index of the item it points into; 0 is the nil pointer.         *)
(* Positions inside the sort routines are 0-based as in the Go code; the   *)
(* element at Go position i is data[i + 1].                                *)
(***************************************************************************)
EXTENDS Integers, Sequences, FiniteSets, TLC

VARIABLES
    pc,         \* position of the running function / harness
    resp,       \* *SOResponse handed to BestQuestion
    tagHints,   \* []string handed to BestQuestion
    best,       \* result of BestQuestion: index into resp.Items, 0 = nil
    q,          \* *QuestionData handed to FormatQuestionMarkdown
    maxAnswers, \* maxAnswers handed to FormatQuestionMarkdown
    doc,        \* the document FormatQuestionMarkdown returned
    prog,       \* the command running: "repl" / "oneshot" (runAsk, part_001:174)
                \* or "v1" (the one-shot runAsk, part_001:479)
    client,     \* the MCP client: "none", "open" or "closed"
    queryNo,    \* how many queries the session has started
    query,      \* the query being answered, as its words
    calls,      \* the tool calls of the current query, in order
    out,        \* what the current query has shown the user, in order
    searchText, \* the text of the so_search result
    parseErr,   \* ParseResponse(searchText) returned an error
    fetch,      \* how the supplementary get_content call ended
    retval,     \* what the query's function returned: "nil" or "err"
    views,      \* answers viewed in answerSelectionLoop
    input,      \* the last line read from stdin, and the prompt it answered
    ctxLeft,    \* time left on the context the tool calls run under
    opens,      \* how often the client subprocess was spawned
    closes,     \* how often the client was closed
    num,        \* n handed to formatNumber
    numText,    \* the string formatNumber returned, as its characters
    questionID, \* the string ExtractQuestionID returned
    maxResults, \* maxResults handed to FormatSearchResults
    listing     \* the document FormatSearchResults returned

bestVars == <<resp, tagHints, best>>

formatVars == <<q, maxAnswers, doc>>

flowVars == <<prog, client, queryNo, query, calls, out, searchText, parseErr,
              fetch, retval, views, input, ctxLeft, opens, closes>>

pureVars == <<num, numText, questionID, maxResults, listing>>

vars == <<pc, bestVars, formatVars, flowVars, pureVars>>

----------------------------------------------------------------------------
(* Bounds of the model.                                                     *)

MaxItems == 2
MaxScore == 1
MaxViews == 1
MaxAnswers == 3
MaxAnswerScore == 1
MaxFlowItems == 2
MaxQueries == 2
MaxAnswerViews == 2
MaxDuration == 3

----------------------------------------------------------------------------
(* Data model: SOResponse, SOItem, QuestionData, AnswerData.                *)

NilPtr == 0

\* strings.ToLower on the tag and hint strings the model draws.
ToLower(s) ==
    CASE s = "Go" -> "go"
      [] s = "GO" -> "go"
      [] s = "Golang" -> "golang"
      [] OTHER -> s

\* AnswerData as json.Unmarshal leaves it when the text gives no field: the
\* zero value.  Title, body and link are text the model does not read.
ZeroAnswer ==
    [AnswerID |-> 0, Owner |-> "", IsAccepted |-> FALSE, Score |-> 0]

\* QuestionData, the zero value likewise.
ZeroQuestion ==
    [QuestionID |-> 0, Tags |-> <<>>, Owner |-> "", IsAnswered |-> FALSE,
     ViewCount |-> 0, AnswerCount |-> 0, Score |-> 0, AcceptedAnswerID |-> 0,
     CreationDate |-> 0, Link |-> "", Answers |-> <<>>]

SOItem(type, data) == [Type |-> type, Data |-> data]

\* A *SOResponse: the nil pointer, or a response with its Items.
Nil == [nil |-> TRUE, Items |-> <<>>]

SOResponse(items) == [nil |-> FALSE, Items |-> items]

----------------------------------------------------------------------------
(* sort.Slice as the Go runtime implements it (pdqsort_func): a slice of at *)
(* most maxInsertion elements is insertion-sorted; a longer one is         *)
(* partitioned around a chosen pivot first.  lt[x][y] is the caller's      *)
(* less(i, j) on the elements x = data[i], y = data[j].                    *)

maxInsertion == 12

Swap(data, i, j) ==
    [data EXCEPT ![i + 1] = data[j + 1], ![j + 1] = data[i + 1]]

Less(data, lt, i, j) == lt[data[i + 1]][data[j + 1]]

RECURSIVE insertionInner(_, _, _, _)
insertionInner(data, lt, a, j) ==
    IF j > a /\ Less(data, lt, j, j - 1)
    THEN insertionInner(Swap(data, j, j - 1), lt, a, j - 1)
    ELSE data

RECURSIVE insertionLoop(_, _, _, _, _)
insertionLoop(data, lt, a, b, i) ==
    IF i < b
    THEN insertionLoop(insertionInner(data, lt, a, i), lt, a, b, i + 1)
    ELSE data

insertionSort_func(data, lt, a, b) == insertionLoop(data, lt, a, b, a + 1)

\* order2_func: <<x, y, swaps>> with data[x] <= data[y].
order2_func(data, lt, a, b, swaps) ==
    IF Less(data, lt, b, a) THEN <<b, a, swaps + 1>> ELSE <<a, b, swaps>>

\* median_func: <<position of the median of a, b, c, swaps>>.
median_func(data, lt, a, b, c, swaps) ==
    LET s1 == order2_func(data, lt, a, b, swaps)
        s2 == order2_func(data, lt, s1[2], c, s1[3])
        s3 == order2_func(data, lt, s1[1], s2[1], s2[3])
    IN  <<s3[2], s3[3]>>

\* choosePivot_func for 8 <= b - a < 50 (no Tukey ninther): the median of the
\* elements at the three quarter positions; the hint is "increasing" when
\* no swap was needed.
choosePivot_func(data, lt, a, b) ==
    LET l == b - a
        i == a + (l \div 4) * 1
        j == a + (l \div 4) * 2
        k == a + (l \div 4) * 3
        m == median_func(data, lt, i, j, k, 0)
    IN  [pivot |-> m[1], increasing |-> (m[2] = 0)]

\* partialInsertionSort_func for b - a < 50 (shortestShifting): it moves
\* nothing and reports whether data[a:b] is already sorted.
partialInsertionSort_func(data, lt, a, b) ==
    \A i \in (a + 1)..(b - 1) : ~Less(data, lt, i, i - 1)

RECURSIVE scanI(_, _, _, _, _)
scanI(data, lt, a, i, j) ==
    IF i <= j /\ Less(data, lt, i, a) THEN scanI(data, lt, a, i + 1, j) ELSE i

RECURSIVE scanJ(_, _, _, _, _)
scanJ(data, lt, a, i, j) ==
    IF i <= j /\ ~Less(data, lt, j, a) THEN scanJ(data, lt, a, i, j - 1) ELSE j

RECURSIVE partitionLoop(_, _, _, _, _)
partitionLoop(data, lt, a, i, j) ==
    LET i2 == scanI(data, lt, a, i, j)
        j2 == scanJ(data, lt, a, i2, j)
    IN  IF i2 > j2
        THEN [data |-> Swap(data, j2, a), mid |-> j2]
        ELSE partitionLoop(Swap(data, i2, j2), lt, a, i2 + 1, j2 - 1)

\* partition_func: the pivot goes to position a, the elements less than it
\* to its left, and it is swapped into its final position mid.
partition_func(data, lt, a, b, pivot) ==
    LET d0 == Swap(data, a, pivot)
        i1 == scanI(d0, lt, a, a + 1, b - 1)
        j1 == scanJ(d0, lt, a, i1, b - 1)
    IN  IF i1 > j1
        THEN [data |-> Swap(d0, j1, a), mid |-> j1]
        ELSE partitionLoop(Swap(d0, i1, j1), lt, a, i1 + 1, j1 - 1)

\* pdqsort_func on data[a:b].  The model draws slices of at most
\* maxInsertion + 1 elements: after the one partition both sides have at
\* most maxInsertion elements, so breakPatterns, partitionEqual and heapSort
\* are not reached.
RECURSIVE pdqsort_func(_, _, _, _)
pdqsort_func(data, lt, a, b) ==
    IF b - a <= maxInsertion
    THEN insertionSort_func(data, lt, a, b)
    ELSE LET cp == choosePivot_func(data, lt, a, b)
         IN  IF cp.increasing /\ partialInsertionSort_func(data, lt, a, b)
             THEN data
             ELSE LET p == partition_func(data, lt, a, b, cp.pivot)
                  IN  pdqsort_func(pdqsort_func(p.data, lt, a, p.mid),
                                   lt, p.mid + 1, b)

\* sort.Slice(x, less)
SortSlice(data, lt) == pdqsort_func(data, lt, 0, Len(data))

----------------------------------------------------------------------------
(* BestQuestion (pkg/mcp/parse.go).                                         *)

\* parse.go:107: an item is skipped if Type is populated and not "Question".
IsQuestionItem(item) == ~(item.Type # "" /\ item.Type # "Question")

\* parse.go:105-111: pointers to the Data of the question items, in order.
QuestionPtrs(r) ==
    SelectSeq([i \in 1..Len(r.Items) |-> i],
              LAMBDA i : IsQuestionItem(r.Items[i]))

\* parse.go:118-121: the set of lowercased hints.
HintSet(hints) == {ToLower(hints[k]) : k \in 1..Len(hints)}

\* parse.go:124-129: some tag of the question, lowercased, is in the hint set.
TagMatches(data, hints) ==
    \E k \in 1..Len(data.Tags) : ToLower(data.Tags[k]) \in HintSet(hints)

\* Candidates with the tag hints ignored.
Candidates_IgnoreHints(r, hints) == QuestionPtrs(r)

\* parse.go:116-134: the candidates after the tag-hint preference.
Candidates(r, hints) ==
    LET questions == QuestionPtrs(r)
        matching == SelectSeq(questions,
                              LAMBDA i : TagMatches(r.Items[i].Data, hints))
    IN  IF Len(hints) > 0 /\ Len(matching) > 0 THEN matching ELSE questions

\* QuestionLess without the view-count tie-break.
QuestionLess_NoTieBreak(r) ==
    [x \in 1..Len(r.Items) |-> [y \in 1..Len(r.Items) |->
        r.Items[x].Data.Score > r.Items[y].Data.Score]]

\* parse.go:137-142: the less function handed to sort.Slice.
QuestionLess(r) ==
    [x \in 1..Len(r.Items) |-> [y \in 1..Len(r.Items) |->
        IF r.Items[x].Data.Score # r.Items[y].Data.Score
        THEN r.Items[x].Data.Score > r.Items[y].Data.Score
        ELSE r.Items[x].Data.ViewCount > r.Items[y].Data.ViewCount]]

\* BestQuestion returning nil when hints are given and no tag matches.
BestQuestion_NoFallback(r, hints) ==
    IF r.nil THEN NilPtr
    ELSE IF Len(r.Items) = 0 THEN NilPtr
    ELSE IF Len(QuestionPtrs(r)) = 0 THEN NilPtr
    ELSE IF Len(hints) > 0
            /\ \A i \in 1..Len(r.Items) : ~TagMatches(r.Items[i].Data, hints)
         THEN NilPtr
    ELSE SortSlice(Candidates(r, hints), QuestionLess(r))[1]

\* BestQuestion: the pointer returned (NilPtr for nil).
BestQuestion(r, hints) ==
    IF r.nil THEN NilPtr
    ELSE IF Len(r.Items) = 0 THEN NilPtr
    ELSE IF Len(QuestionPtrs(r)) = 0 THEN NilPtr
    ELSE SortSlice(Candidates(r, hints), QuestionLess(r))[1]

\* BestQuestion sorting resp.Items itself.
ItemsAfterBestQuestion_SortedInPlace(r, hints) ==
    IF r.nil \/ Len(r.Items) = 0 THEN r.Items
    ELSE LET order == SortSlice([i \in 1..Len(r.Items) |-> i], QuestionLess(r))
         IN  [i \in 1..Len(r.Items) |-> r.Items[order[i]]]

\* parse.go:104-142: resp.Items as BestQuestion leaves it.  The pointers
\* are collected in a slice of the function's own (questions, matching),
\* and that slice is what is filtered and sorted; resp.Items is only read.
ItemsAfterBestQuestion(r, hints) == r.Items

\* The response after BestQuestion(r, hints).
AfterBestQuestion(r, hints) ==
    [r EXCEPT !.Items = ItemsAfterBestQuestion(r, hints)]

----------------------------------------------------------------------------
(* FormatQuestionMarkdown (pkg/mcp/parse.go).  The document is the sequence *)
(* of the blocks written to the strings.Builder; a block records what the  *)
(* text shows of the payload.                                              *)

\* A *QuestionData: nil, or a pointer to v.
NilQuestion == [nil |-> TRUE, v |-> ZeroQuestion]

PtrTo(v) == [nil |-> FALSE, v |-> v]

Block(kind, n, id, accepted, score, text) ==
    [kind |-> kind, n |-> n, id |-> id, accepted |-> accepted,
     score |-> score, text |-> text]

Plain(kind) == Block(kind, 0, 0, FALSE, 0, "")

\* AnswerLess ranking by score only.
AnswerLess_ScoreOnly(answers) ==
    [x \in 1..Len(answers) |-> [y \in 1..Len(answers) |->
        answers[x].Score > answers[y].Score]]

\* parse.go:209-214: the less function handed to sort.Slice; x and y are
\* positions in q.Answers.
AnswerLess(answers) ==
    [x \in 1..Len(answers) |-> [y \in 1..Len(answers) |->
        IF answers[x].IsAccepted # answers[y].IsAccepted
        THEN answers[x].IsAccepted
        ELSE answers[x].Score > answers[y].Score]]

\* parse.go:207-214: the sorted copy of q.Answers.
SortedCopy(answers) ==
    LET order == SortSlice([i \in 1..Len(answers) |-> i], AnswerLess(answers))
    IN  [i \in 1..Len(answers) |-> answers[order[i]]]

\* Shown with a non-positive maxAnswers showing nothing.
Shown_ZeroShowsNone(n, max) == IF max < 0 \/ max > n THEN n ELSE max

\* parse.go:216-219: how many answers are shown.
Shown(n, max) == IF max <= 0 \/ max > n THEN n ELSE max

\* parse.go:225-244: the blocks of the i-th shown answer (i counts from 1).
AnswerBlocks(a, i, shown) ==
    <<Block("answer", i, 0, a.IsAccepted,
            IF a.Score > 0 THEN a.Score ELSE 0, "")>>
    \o (IF a.Owner # "" THEN <<Block("by", 0, 0, FALSE, 0, a.Owner)>> ELSE <<>>)
    \o <<Block("answerBody", 0, a.AnswerID, FALSE, 0, "")>>
    \o (IF i - 1 < shown - 1 THEN <<Plain("separator")>> ELSE <<>>)

\* parse.go:224-245: the loop over the shown answers.
RECURSIVE AnswerLoop(_, _, _)
AnswerLoop(answers, i, shown) ==
    IF i > shown THEN <<>>
    ELSE AnswerBlocks(answers[i], i, shown) \o AnswerLoop(answers, i + 1, shown)

\* parse.go:205-249: the answer section.
AnswerSection(answers, max) ==
    LET sorted == SortedCopy(answers)
        shown == Shown(Len(sorted), max)
    IN  <<Plain("separator"), Block("heading", shown, 0, FALSE, 0, "")>>
        \o AnswerLoop(sorted, 1, shown)
        \o (IF Len(sorted) > shown
            THEN <<Block("more", Len(sorted) - shown, 0, FALSE, 0, "")>>
            ELSE <<>>)

\* CallToAction writing "answers" whatever the count.
CallToAction_AlwaysPlural(v) ==
    <<Plain("separator"),
      Block("cta", v.AnswerCount, 0, FALSE, 0, "answers"),
      Block("ctaLink", 0, 0, FALSE, 0, v.Link)>>

\* parse.go:250-260: the call-to-action.
CallToAction(v) ==
    <<Plain("separator"),
      Block("cta", v.AnswerCount, 0, FALSE, 0,
            IF v.AnswerCount = 1 THEN "answer" ELSE "answers"),
      Block("ctaLink", 0, 0, FALSE, 0, v.Link)>>

\* FormatQuestionMarkdown: the document; the empty one for a nil question.
\* The meta block shows the score, the answer count and the answered mark
\* (and the view count, through formatNumber).
FormatQuestionMarkdown(p, max) ==
    IF p.nil THEN <<>>
    ELSE LET v == p.v
         IN  <<Plain("title"),
               Block("meta", v.AnswerCount, 0, v.IsAnswered, v.Score, "")>>
             \o (IF Len(v.Tags) > 0 THEN <<Plain("tags")>> ELSE <<>>)
             \o (IF v.Owner # ""
                 THEN <<Block("askedBy", IF v.CreationDate > 0 THEN 1 ELSE 0,
                              0, FALSE, 0, v.Owner)>>
                 ELSE <<>>)
             \o <<Plain("separator"), Plain("body")>>
             \o (IF v.Link # "" THEN <<Block("link", 0, 0, FALSE, 0, v.Link)>>
                 ELSE <<>>)
             \o (IF Len(v.Answers) > 0 THEN AnswerSection(v.Answers, max)
                 ELSE IF v.AnswerCount > 0 /\ v.Link # "" THEN CallToAction(v)
                 ELSE <<>>)

\* FormatQuestionMarkdown sorting q.Answers itself.
AnswersAfterFormat_SortedInPlace(v) == SortedCopy(v.Answers)

\* parse.go:207-209: q.Answers as FormatQuestionMarkdown leaves it.  The
\* answers are copied into a slice made for them and the copy is sorted.
AnswersAfterFormat(v) == v.Answers

\* The question after FormatQuestionMarkdown(p, max).
AfterFormat(p) ==
    IF p.nil THEN p ELSE [p EXCEPT !.v.Answers = AnswersAfterFormat(p.v)]

----------------------------------------------------------------------------
(* Tool results and their text (part_000, parse.go).  A text is modelled by *)
(* what the parsers make of it: its JSON syntax class, the Items of the    *)
(* envelope it encodes, and the question references the patterns of        *)
(* ExtractQuestionID find in it, in text order.                            *)

Text(syntax, items, refs) == [syntax |-> syntax, Items |-> items, refs |-> refs]

\* No text: the result of a failed call, and the empty string.
NoText == Text("empty", <<>>, <<>>)

\* ParseResponse: json.Unmarshal into an SOResponse.  Text that is no JSON,
\* or JSON of another shape, is an error; "null" and an object without
\* Items leave the zero response.
ParseResponse(text) ==
    CASE text.syntax = "object" -> [err |-> FALSE, resp |-> SOResponse(text.Items)]
      [] text.syntax = "null" -> [err |-> FALSE, resp |-> SOResponse(<<>>)]
      [] OTHER -> [err |-> TRUE, resp |-> Nil]

\* A match of pattern pat (1: SO_Q<digits>, 2: /questions/<digits>,
\* 3: stackoverflow.com/q/<digits>, 4: question: <5+ digits>) with the
\* number its digits spell.
Ref(pat, id) == [pat |-> pat, id |-> id]

\* part_000:115-120: the first match of the first pattern that matches.
RECURSIVE ExtractFrom(_, _)
ExtractFrom(refs, pat) ==
    IF pat > 4 THEN [found |-> FALSE, id |-> 0]
    ELSE LET m == SelectSeq(refs, LAMBDA r : r.pat = pat)
         IN  IF Len(m) > 0 THEN [found |-> TRUE, id |-> m[1].id]
             ELSE ExtractFrom(refs, pat + 1)

\* ExtractQuestionID returning the match that comes first in the text,
\* whatever its pattern.
ExtractQuestionID_FirstInText(text) ==
    LET m == SelectSeq(text.refs, LAMBDA r : r.pat \in 1..4)
    IN  IF Len(m) > 0 THEN [found |-> TRUE, id |-> m[1].id]
        ELSE [found |-> FALSE, id |-> 0]

\* ExtractQuestionID: found is FALSE for the empty string.
ExtractQuestionID(text) == ExtractFrom(text.refs, 1)

\* part_001:414-429 and 645-664: langMap on the words the model draws; ""
\* for a word that is no key.
langMap(w) ==
    CASE w = "go" -> "go"
      [] w = "golang" -> "go"
      [] w = "python" -> "python"
      [] w = "py" -> "python"
      [] OTHER -> ""

\* part_001:431-440: the tags of the words, each once, in order.
RECURSIVE detectLoop(_, _)
detectLoop(words, hints) ==
    IF words = <<>> THEN hints
    ELSE LET tag == langMap(ToLower(Head(words)))
         IN  IF tag # "" /\ \A k \in 1..Len(hints) : hints[k] # tag
             THEN detectLoop(Tail(words), Append(hints, tag))
             ELSE detectLoop(Tail(words), hints)

detectTagHints(words) == detectLoop(words, <<>>)

\* BestQuestionWithAnswers: BestQuestion over the question items that carry
\* at least one embedded answer.
BestQuestionWithAnswers(r, hints) ==
    IF r.nil THEN NilPtr
    ELSE LET withAnswers ==
                SelectSeq(QuestionPtrs(r),
                          LAMBDA i : Len(r.Items[i].Data.Answers) > 0)
             matching ==
                SelectSeq(withAnswers,
                          LAMBDA i : TagMatches(r.Items[i].Data, hints))
         IN  IF Len(withAnswers) = 0 THEN NilPtr
             ELSE SortSlice(IF Len(hints) > 0 /\ Len(matching) > 0
                            THEN matching ELSE withAnswers,
                            QuestionLess(r))[1]

\* AnswerFromItem: the answer record of a fetched item.
AnswerFromItem(item) ==
    [ZeroAnswer EXCEPT !.AnswerID = item.Data.QuestionID,
                       !.Owner = item.Data.Owner,
                       !.Score = item.Data.Score]

----------------------------------------------------------------------------
(* Inputs of the BestQuestion harness.                                      *)

ItemTypes == {"", "Question", "Answer"}

TagLists == {<<>>, <<"Go">>}

HintLists == {<<>>, <<"GO">>, <<"python">>}

SmallItems ==
    {SOItem(t, [ZeroQuestion EXCEPT !.Tags = tags, !.Score = s,
                                    !.ViewCount = v]) :
        t \in ItemTypes, tags \in TagLists,
        s \in 0..MaxScore, v \in 0..MaxViews}

SeqsUpTo(S, n) == UNION {[1..k -> S] : k \in 0..n}

SmallResponses == {SOResponse(items) : items \in SeqsUpTo(SmallItems, MaxItems)}

\* Responses one element longer than the insertion-sort threshold: every
\* item scores 0 except those at the positions in hi.
LargeLen == maxInsertion + 1

LargeResponse(hi, tagged) ==
    SOResponse([i \in 1..LargeLen |->
        SOItem("Question",
               [ZeroQuestion EXCEPT
                    !.QuestionID = i,
                    !.Tags = IF i \in tagged THEN <<"Go">> ELSE <<>>,
                    !.Score = IF i \in hi THEN 1 ELSE 0])])

LargeResponses ==
    {LargeResponse({i, j}, {j, k}) : i \in 1..5, j \in 1..LargeLen, k \in {2}}

Responses == {Nil} \cup SmallResponses \cup LargeResponses

----------------------------------------------------------------------------
(* The variables of a function that is not the one under call.              *)

BestIdle == resp = Nil /\ tagHints = <<>> /\ best = NilPtr

FormatIdle == q = NilQuestion /\ maxAnswers = 0 /\ doc = <<>>

\* Nothing has been read from stdin.
NoInput == [at |-> "none", eof |-> FALSE, line |-> <<>>]

FlowIdle ==
    /\ prog = "none" /\ client = "none" /\ queryNo = 0 /\ query = <<>>
    /\ calls = <<>> /\ out = <<>> /\ searchText = NoText /\ parseErr = FALSE
    /\ fetch = "none" /\ retval = "none" /\ views = 0
    /\ input = NoInput /\ ctxLeft = 0 /\ opens = 0 /\ closes = 0

\* The empty string as a question id: no digits found.
NoID == [found |-> FALSE, id |-> 0]

PureIdle ==
    /\ num = 0 /\ numText = <<>> /\ questionID = NoID
    /\ maxResults = 0 /\ listing = <<>>

----------------------------------------------------------------------------
(* The BestQuestion harness: draw the arguments, make the call.             *)

InitBest ==
    /\ pc = "call"
    /\ resp \in Responses
    /\ tagHints \in HintLists
    /\ best = NilPtr
    /\ FormatIdle
    /\ FlowIdle
    /\ PureIdle

CallBestQuestion ==
    /\ pc = "call"
    /\ best' = BestQuestion(resp, tagHints)
    /\ resp' = AfterBestQuestion(resp, tagHints)
    /\ pc' = "returned"
    /\ UNCHANGED <<tagHints, formatVars, flowVars, pureVars>>

NextBest == CallBestQuestion

SpecBest == InitBest /\ [][NextBest]_vars

----------------------------------------------------------------------------
(* Vocabulary of the BestQuestion properties, stated on the items.          *)

\* The positions of the items whose Type is empty or "Question".
QuestionIdx(r) ==
    {i \in 1..Len(r.Items) : r.Items[i].Type \in {"", "Question"}}

\* Item x ranks strictly above item y: greater score, or the same score and
\* a greater view count.
Outranks(r, x, y) ==
    \/ r.Items[x].Data.Score > r.Items[y].Data.Score
    \/ /\ r.Items[x].Data.Score = r.Items[y].Data.Score
       /\ r.Items[x].Data.ViewCount > r.Items[y].Data.ViewCount

SameRank(r, x, y) ==
    /\ r.Items[x].Data.Score = r.Items[y].Data.Score
    /\ r.Items[x].Data.ViewCount = r.Items[y].Data.ViewCount

\* Item i has a tag equal, ignoring case, to one of the hints.
HasHintedTag(r, i, hints) ==
    \E k \in 1..Len(r.Items[i].Data.Tags), h \in 1..Len(hints) :
        ToLower(r.Items[i].Data.Tags[k]) = ToLower(hints[h])

\* The question items that match a hint.
MatchingIdx(r, hints) == {i \in QuestionIdx(r) : HasHintedTag(r, i, hints)}

\* The candidate set of the call: the matching items if hints are given and
\* some item matches, all question items otherwise.
CandidateIdx(r, hints) ==
    IF Len(hints) > 0 /\ MatchingIdx(r, hints) # {}
    THEN MatchingIdx(r, hints) ELSE QuestionIdx(r)

\* C1: without tag hints BestQuestion returns a question-typed item that no
\* other question-typed item outranks (greater score, or equal score and
\* greater view count); it returns nil exactly when the response is nil, has
\* no items, or has no question-typed item.
C1_BestIsTopRanked ==
    (pc = "returned" /\ Len(tagHints) = 0) =>
        /\ (best = NilPtr) <=>
              (resp.nil \/ Len(resp.Items) = 0 \/ QuestionIdx(resp) = {})
        /\ best # NilPtr =>
              /\ best \in QuestionIdx(resp)
              /\ \A j \in QuestionIdx(resp) : ~Outranks(resp, j, best)

\* C1 witness: a call without hints that returned an item other than the
\* first, winning on the view count against an earlier item of the same
\* score.
C1_Witness ==
    /\ pc = "returned" /\ Len(tagHints) = 0
    /\ best > 1
    /\ \E j \in QuestionIdx(resp) :
          /\ j < best
          /\ resp.Items[j].Data.Score = resp.Items[best].Data.Score
          /\ Outranks(resp, best, j)

\* C2: with a non-empty hint set that no question-typed item matches, the
\* call returns what the call without hints returns, and not nil when
\* question-typed items exist.
C2_FallbackSafe ==
    (pc = "returned" /\ Len(tagHints) > 0 /\ ~resp.nil
        /\ MatchingIdx(resp, tagHints) = {}) =>
        /\ best = BestQuestion(resp, <<>>)
        /\ QuestionIdx(resp) # {} => best # NilPtr

\* C2 witness: hints were given, tagged question items exist, none matches,
\* and an item was returned.
C2_Witness ==
    /\ pc = "returned" /\ Len(tagHints) > 0 /\ ~resp.nil
    /\ MatchingIdx(resp, tagHints) = {}
    /\ \E i \in QuestionIdx(resp) : Len(resp.Items[i].Data.Tags) > 0
    /\ best # NilPtr

\* C3: with a non-empty hint set that some question-typed item matches, the
\* returned item matches a hint and no matching item outranks it.
C3_PrefersMatching ==
    (pc = "returned" /\ Len(tagHints) > 0 /\ ~resp.nil
        /\ MatchingIdx(resp, tagHints) # {}) =>
        /\ best \in MatchingIdx(resp, tagHints)
        /\ \A j \in MatchingIdx(resp, tagHints) : ~Outranks(resp, j, best)

\* C3 witness: the returned item matches although a non-matching question
\* item has a greater score.
C3_Witness ==
    /\ pc = "returned" /\ Len(tagHints) > 0 /\ ~resp.nil
    /\ best \in MatchingIdx(resp, tagHints)
    /\ \E j \in QuestionIdx(resp) \ MatchingIdx(resp, tagHints) :
          resp.Items[j].Data.Score > resp.Items[best].Data.Score

\* C4: when several candidates share the rank of the returned one (the
\* greatest score and view count), the returned one is the earliest of them
\* in the order of resp.Items.
C4_StableSelection ==
    (pc = "returned" /\ best # NilPtr) =>
        \A j \in CandidateIdx(resp, tagHints) :
            SameRank(resp, j, best) => best <= j

----------------------------------------------------------------------------
(* The FormatQuestionMarkdown harness.  An answer's AnswerID is its         *)
(* position in q.Answers, so a rendered body names the answer it shows.    *)

Numbered(answers) ==
    [i \in 1..Len(answers) |-> [answers[i] EXCEPT !.AnswerID = i]]

SmallAnswers ==
    {[ZeroAnswer EXCEPT !.IsAccepted = acc, !.Score = sc] :
        acc \in BOOLEAN, sc \in 0..MaxAnswerScore}

SmallAnswerLists ==
    {Numbered(as) : as \in SeqsUpTo(SmallAnswers, MaxAnswers)}

Ans(acc, sc, owner) ==
    [ZeroAnswer EXCEPT !.IsAccepted = acc, !.Score = sc, !.Owner = owner]

\* The answers of the ordering example and a list of five.
ExampleAnswerLists ==
    {Numbered(<<Ans(FALSE, 5, ""), Ans(TRUE, 1, "bob"), Ans(FALSE, 9, "")>>),
     Numbered(<<Ans(FALSE, 2, ""), Ans(FALSE, -1, "eve"), Ans(TRUE, 0, ""),
                Ans(FALSE, 7, ""), Ans(FALSE, 2, "")>>)}

\* Lists one longer than the insertion-sort threshold: every answer scores
\* 0 except those at the positions in hi.
LargeAnswerLists ==
    {Numbered([i \in 1..LargeLen |->
                 Ans(FALSE, IF i \in {h1, h2} THEN 1 ELSE 0, "")]) :
        h1 \in 1..5, h2 \in 1..LargeLen}

AnswerLists == SmallAnswerLists \cup ExampleAnswerLists \cup LargeAnswerLists

FormatQuestions ==
    {NilQuestion} \cup
    {PtrTo([ZeroQuestion EXCEPT !.Answers = as, !.AnswerCount = ac,
                                !.Link = link]) :
        as \in AnswerLists, ac \in 0..2, link \in {"", "https://so/q/1"}}

InitFormat ==
    /\ pc = "call"
    /\ q \in FormatQuestions
    /\ maxAnswers \in -1..(MaxAnswers + 1)
    /\ doc = <<>>
    /\ BestIdle
    /\ FlowIdle
    /\ PureIdle

CallFormatQuestionMarkdown ==
    /\ pc = "call"
    /\ doc' = FormatQuestionMarkdown(q, maxAnswers)
    /\ q' = AfterFormat(q)
    /\ pc' = "returned"
    /\ UNCHANGED <<bestVars, maxAnswers, flowVars, pureVars>>

NextFormat == CallFormatQuestionMarkdown

SpecFormat == InitFormat /\ [][NextFormat]_vars

----------------------------------------------------------------------------
(* Vocabulary of the formatting properties, read off the document.          *)

BlocksOf(d, kind) == SelectSeq(d, LAMBDA b : b.kind = kind)

\* The answers of q in the order the document shows their bodies.
RenderedAnswers ==
    LET bodies == BlocksOf(doc, "answerBody")
    IN  [i \in 1..Len(bodies) |-> q.v.Answers[bodies[i].id]]

\* C5: every accepted answer shown precedes every non-accepted one, and
\* among answers of the same accepted flag the scores do not increase; the
\* answers (false,5), (true,1), (false,9) are shown as (true,1), (false,9),
\* (false,5).
C5_AnswerOrder ==
    (pc = "returned" /\ ~q.nil) =>
        LET r == RenderedAnswers
        IN  /\ \A i, j \in 1..Len(r) :
                 i < j =>
                   /\ ~(~r[i].IsAccepted /\ r[j].IsAccepted)
                   /\ r[i].IsAccepted = r[j].IsAccepted =>
                        r[i].Score >= r[j].Score
            /\ ([i \in 1..Len(q.v.Answers) |->
                    <<q.v.Answers[i].IsAccepted, q.v.Answers[i].Score>>]
                  = <<<<FALSE, 5>>, <<TRUE, 1>>, <<FALSE, 9>>>>
                /\ Shown(3, maxAnswers) = 3)
               => [i \in 1..Len(r) |-> <<r[i].IsAccepted, r[i].Score>>]
                  = <<<<TRUE, 1>>, <<FALSE, 9>>, <<FALSE, 5>>>>

\* C5 witness: the example answers were formatted and all three are shown,
\* the accepted one first.
C5_Witness ==
    /\ pc = "returned" /\ ~q.nil
    /\ Len(q.v.Answers) = 3
    /\ q.v.Answers[1].Score = 5 /\ q.v.Answers[3].Score = 9
    /\ Len(RenderedAnswers) = 3
    /\ RenderedAnswers[1].IsAccepted /\ RenderedAnswers[1].AnswerID = 2

\* C6: two answers with the same accepted flag and the same score are shown
\* in the order they have in q.Answers.
C6_StableAnswers ==
    (pc = "returned" /\ ~q.nil) =>
        LET r == RenderedAnswers
        IN  \A i, j \in 1..Len(r) :
              (i < j /\ r[i].IsAccepted = r[j].IsAccepted
                     /\ r[i].Score = r[j].Score)
                => r[i].AnswerID < r[j].AnswerID

\* C7: with n >= 1 answers the document shows k of them, k = maxAnswers if
\* 0 < maxAnswers <= n and k = n otherwise; the heading states k; a note
\* stating n - k is appended exactly when n > k.
C7_ShownCount ==
    (pc = "returned" /\ ~q.nil /\ Len(q.v.Answers) >= 1) =>
        LET n == Len(q.v.Answers)
            k == IF 0 < maxAnswers /\ maxAnswers <= n THEN maxAnswers ELSE n
        IN  /\ Len(BlocksOf(doc, "answer")) = k
            /\ Len(BlocksOf(doc, "answerBody")) = k
            /\ [i \in 1..k |-> BlocksOf(doc, "answer")[i].n] = [i \in 1..k |-> i]
            /\ Len(BlocksOf(doc, "heading")) = 1
            /\ BlocksOf(doc, "heading")[1].n = k
            /\ Len(BlocksOf(doc, "more")) = (IF n > k THEN 1 ELSE 0)
            /\ n > k => /\ doc[Len(doc)].kind = "more"
                        /\ doc[Len(doc)].n = n - k

\* C7 witness: five answers formatted with maxAnswers = 2: two shown and a
\* note of three more.
C7_Witness ==
    /\ pc = "returned" /\ ~q.nil
    /\ Len(q.v.Answers) = 5 /\ maxAnswers = 2
    /\ Len(BlocksOf(doc, "answer")) = 2
    /\ doc[Len(doc)].kind = "more" /\ doc[Len(doc)].n = 3

----------------------------------------------------------------------------
(* The query flow of the ask command (part_001).  A step runs the code from *)
(* one blocking point (a tool call in flight, a read from the terminal) to *)
(* the next.  Two sources define runAsk: the one at part_001:174, with the *)
(* read-loop and searchAndDisplay (prog "repl" without arguments, "oneshot"*)
(* with), and the one-shot command at part_001:479 with fetchAndRender     *)
(* (prog "v1").                                                            *)

\* part_001:459: maxAnswersToShow of the one-shot command.
maxAnswersToShowV1 == 3

\* part_001:187, 258 and 502: the timeouts of the contexts, in minutes.
\* runAsk makes one context for NewClient and searchAndDisplay one for the
\* query; the one-shot runAsk of part_001:479 makes a single context.
connectTimeout == 3
queryTimeout == 2
ctxTimeoutV1 == 3

\* A tool call: the tool, its query argument (the words of the search, or
\* the reference SO_A<id> / SO_Q<id>), and how it stands.
ToolCall(tool, words, ref, id) ==
    [tool |-> tool, query |-> words, ref |-> ref, id |-> id, state |-> "pending",
     limit |-> 0, took |-> 0]

\* The locals of the running function.
Cur ==
    [pc |-> pc, client |-> client, calls |-> calls, out |-> out,
     searchText |-> searchText, parseErr |-> parseErr, resp |-> resp,
     tagHints |-> tagHints, best |-> best, fetch |-> fetch,
     retval |-> retval, q |-> q, doc |-> doc, input |-> input,
     ctxLeft |-> ctxLeft, opens |-> opens, closes |-> closes]

Becomes(n) ==
    /\ pc' = n.pc /\ client' = n.client /\ calls' = n.calls /\ out' = n.out
    /\ searchText' = n.searchText /\ parseErr' = n.parseErr /\ resp' = n.resp
    /\ tagHints' = n.tagHints /\ best' = n.best /\ fetch' = n.fetch
    /\ retval' = n.retval /\ q' = n.q /\ doc' = n.doc /\ input' = n.input
    /\ ctxLeft' = n.ctxLeft /\ opens' = n.opens /\ closes' = n.closes

\* printError / renderAndPrint / fmt.Println of something the user reads.
Shows(s, kind, text) ==
    [s EXCEPT !.out = Append(@, [kind |-> kind, text |-> text])]

\* c.CallTool returned: the call in flight succeeded or failed.
Settle(s, ok) ==
    [s EXCEPT !.calls[Len(s.calls)].state = IF ok THEN "ok" ELSE "failed"]

\* c.CallTool returned after d minutes, or when its context expired: the
\* call records the time it had and the time it took.
Elapse(s, d) ==
    LET used == IF d < s.ctxLeft THEN d ELSE s.ctxLeft
    IN  [s EXCEPT !.calls[Len(s.calls)].limit = s.ctxLeft,
                  !.calls[Len(s.calls)].took = used,
                  !.ctxLeft = s.ctxLeft - used]

\* part_000:78-83: Client.Close, on the client NewClient returned.
Close(s) == [s EXCEPT !.client = "closed", !.closes = @ + 1]

\* Returns with an error of the query ending the read-loop.
Returns_ErrEndsLoop(s, rv) ==
    IF prog = "repl" /\ rv = "nil"
    THEN [s EXCEPT !.pc = "prompt", !.retval = rv]
    ELSE Close([s EXCEPT !.pc = "exit", !.retval = rv])

\* Returns without the deferred Close.
Returns_NoClose(s, rv) ==
    IF prog = "repl"
    THEN [s EXCEPT !.pc = "prompt", !.retval = rv]
    ELSE [s EXCEPT !.pc = "exit", !.retval = rv]

\* The query's function returns rv.  replLoop drops the value and prompts
\* again (part_001:241); the one-shot commands return it from runAsk, whose
\* deferred client.Close() runs (part_001:203, 522).
Returns(s, rv) ==
    IF prog = "repl"
    THEN [s EXCEPT !.pc = "prompt", !.retval = rv]
    ELSE Close([s EXCEPT !.pc = "exit", !.retval = rv])

\* part_001:307-320: the header, then the answer selection or the link.
display(s) ==
    LET d == s.resp.Items[s.best].Data
        s1 == Shows(s, "header", "")
    IN  IF Len(d.Answers) > 0 THEN [s1 EXCEPT !.pc = "select"]
        ELSE IF d.Link # "" THEN Returns(Shows(s1, "link", d.Link), "nil")
        ELSE Returns(s1, "nil")

\* part_001:284-305: the three strategies of searchAndDisplay on a parsed
\* response: a question with embedded answers, else the best question and
\* the fetch of its accepted answer, else the list of results.
selectBest(s, r) ==
    LET hints == detectTagHints(query)
        s2 == [s EXCEPT !.tagHints = hints]
        b1 == BestQuestionWithAnswers(r, hints)
        b2 == BestQuestion(r, hints)
        r2 == AfterBestQuestion(r, hints)
        s3 == [s2 EXCEPT !.resp = r2]
    IN  IF b1 # NilPtr THEN display([s2 EXCEPT !.best = b1])
        ELSE IF b2 = NilPtr
        THEN Returns(Shows(s3, "results", ""), "nil")
        ELSE IF r2.Items[b2].Data.AcceptedAnswerID > 0
        THEN [s3 EXCEPT
                !.best = b2, !.pc = "fetchAnswer", !.fetch = "pending",
                !.calls = Append(@, ToolCall("get_content", <<>>, "SO_A",
                                     r2.Items[b2].Data.AcceptedAnswerID))]
        ELSE display([s3 EXCEPT !.best = b2])

\* afterSearch printing the raw text when it does not parse.
afterSearch_DumpsRaw(s, r) ==
    IF r.err # ""
    THEN Returns(Shows(Settle(s, FALSE), "error", "Search failed"), "err")
    ELSE
    LET s0 == [Settle(s, TRUE) EXCEPT !.searchText = r.text]
        p == ParseResponse(r.text)
        s1 == [s0 EXCEPT !.parseErr = p.err, !.resp = p.resp]
    IN  IF r.text.syntax = "empty"
        THEN Returns(Shows(s0, "error", "No results"), "nil")
        ELSE IF p.err THEN Returns(Shows(s1, "raw", ""), "nil")
        ELSE IF p.resp.nil \/ Len(p.resp.Items) = 0
        THEN Returns(Shows(s1, "error", "No results"), "nil")
        ELSE selectBest(s1, p.resp)

\* part_001:266-305: searchAndDisplay from the return of so_search to the
\* next blocking point.  r.err is "" for a result, else the failure.
afterSearch(s, r) ==
    IF r.err # ""
    THEN Returns(Shows(Settle(s, FALSE), "error", "Search failed"), "err")
    ELSE
    LET s0 == [Settle(s, TRUE) EXCEPT !.searchText = r.text]
        p == ParseResponse(r.text)
        s1 == [s0 EXCEPT !.parseErr = p.err, !.resp = p.resp]
    IN  IF r.text.syntax = "empty"
        THEN Returns(Shows(s0, "error", "No results"), "nil")
        ELSE IF p.err \/ p.resp.nil \/ Len(p.resp.Items) = 0
        THEN Returns(Shows(s1, "error", "No results"), "nil")
        ELSE selectBest(s1, p.resp)

\* part_001:333-341 and 307-320: fetchAcceptedAnswer once get_content has
\* returned a result: the first item is appended to the answers of the
\* selected question, or nothing is; then the display.
fetched(s, r) ==
    LET p == ParseResponse(r.text)
    IN  IF p.err \/ p.resp.nil \/ Len(p.resp.Items) = 0
        THEN display([Settle(s, TRUE) EXCEPT
                        !.fetch = IF p.err THEN "parseError" ELSE "noItems"])
        ELSE display([Settle(s, TRUE) EXCEPT
                        !.fetch = "appended",
                        !.resp.Items[s.best].Data.Answers =
                            Append(@, AnswerFromItem(p.resp.Items[1]))])

\* afterFetch calling get_content again when the call failed.
afterFetch_Retry(s, r) ==
    IF r.err # ""
    THEN [Settle(s, FALSE) EXCEPT
            !.calls = Append(@, ToolCall("get_content", <<>>, "SO_A",
                                 s.resp.Items[s.best].Data.AcceptedAnswerID))]
    ELSE fetched(s, r)

\* afterFetch reporting a failed call to the user instead of displaying.
afterFetch_Reports(s, r) ==
    IF r.err # ""
    THEN Returns(Shows([Settle(s, FALSE) EXCEPT !.fetch = "callError"],
                       "error", "Failed to fetch answer"), "err")
    ELSE fetched(s, r)

\* part_001:328-332: fetchAcceptedAnswer from the return of get_content; a
\* failed call returns at once, and searchAndDisplay goes on to display.
afterFetch(s, r) ==
    IF r.err # ""
    THEN display([Settle(s, FALSE) EXCEPT !.fetch = "callError"])
    ELSE fetched(s, r)

\* part_001:594-603: fetchAndRender issues get_content for SO_Q<qid>.
fetchAndRender(s, qid) ==
    [s EXCEPT !.pc = "fetchQuestion", !.fetch = "pending",
              !.calls = Append(@, ToolCall("get_content", <<>>, "SO_Q", qid))]

\* part_001:530-589: the one-shot runAsk from the return of so_search.
afterSearchV1(s, r) ==
    IF r.err # ""
    THEN Returns(Shows(Settle(s, FALSE), "error", "Search failed"), "err")
    ELSE
    LET s0 == [Settle(s, TRUE) EXCEPT !.searchText = r.text]
    IN  IF r.text.syntax = "empty"
        THEN Returns(Shows(s0, "error", "No results"), "err")
        ELSE
        LET p == ParseResponse(r.text)
            usable == ~p.err /\ ~p.resp.nil /\ Len(p.resp.Items) > 0
            hints == IF usable THEN detectTagHints(query) ELSE <<>>
            b == IF usable THEN BestQuestion(p.resp, hints) ELSE NilPtr
            r1 == IF usable THEN AfterBestQuestion(p.resp, hints) ELSE p.resp
            s1 == [s0 EXCEPT !.parseErr = p.err, !.resp = r1,
                             !.tagHints = hints, !.best = b]
            x == ExtractQuestionID(r.text)
        IN  IF b # NilPtr /\ Len(r1.Items[b].Data.Answers) > 0
            THEN Returns(Shows([s1 EXCEPT
                    !.q = PtrTo(r1.Items[b].Data),
                    !.doc = FormatQuestionMarkdown(PtrTo(r1.Items[b].Data),
                                                   maxAnswersToShowV1),
                    !.resp.Items[b].Data.Answers =
                        AnswersAfterFormat(r1.Items[b].Data)],
                    "question", ""), "nil")
            ELSE IF b # NilPtr /\ r1.Items[b].Data.QuestionID > 0
            THEN fetchAndRender(s1, r1.Items[b].Data.QuestionID)
            ELSE IF x.found /\ x.id > 0
            THEN fetchAndRender(s1, x.id)
            ELSE IF ~r1.nil /\ Len(r1.Items) > 0
            THEN Returns(Shows(s1, "results", ""), "nil")
            ELSE Returns(Shows(s1, "raw", ""), "nil")

\* part_001:601-626: fetchAndRender from the return of get_content.
afterFetchV1(s, r) ==
    IF r.err # ""
    THEN Returns(Shows([Settle(s, FALSE) EXCEPT !.fetch = "callError"],
                       "error", "Failed to fetch question"), "err")
    ELSE
    LET s0 == Settle(s, TRUE)
        p == ParseResponse(r.text)
    IN  IF r.text.syntax = "empty"
        THEN Returns(Shows([s0 EXCEPT !.fetch = "emptyText"],
                           "error", "Empty response"), "err")
        ELSE IF ~p.err /\ ~p.resp.nil /\ Len(p.resp.Items) > 0
        THEN Returns(Shows([s0 EXCEPT
                !.fetch = "rendered",
                !.q = PtrTo(p.resp.Items[1].Data),
                !.doc = FormatQuestionMarkdown(PtrTo(p.resp.Items[1].Data),
                                               maxAnswersToShowV1)],
                "question", ""), "nil")
        ELSE Returns(Shows([s0 EXCEPT
                !.fetch = IF p.err THEN "parseError" ELSE "noItems"],
                "raw", ""), "nil")

----------------------------------------------------------------------------
(* What the server and the user may send.                                   *)

FlowAnswer == [ZeroAnswer EXCEPT !.AnswerID = 5, !.Score = 1]

\* Two embedded answers, the accepted one last.
FlowAnswers ==
    <<FlowAnswer, [ZeroAnswer EXCEPT !.AnswerID = 6, !.IsAccepted = TRUE]>>

\* A payload of the search: with a question id it has a link and a tag;
\* with an accepted answer, a score.
FlowQuestion(qid, as, acc) ==
    [ZeroQuestion EXCEPT
        !.QuestionID = qid,
        !.Link = IF qid > 0 THEN "https://so/q" ELSE "",
        !.Tags = IF qid > 0 THEN <<"Go">> ELSE <<>>,
        !.Answers = as,
        !.AcceptedAnswerID = acc,
        !.Score = IF acc > 0 THEN 1 ELSE 0,
        !.AnswerCount = Len(as)]

\* The items of the search: questions, and an item of another type.
FlowItems ==
    {SOItem("Question", FlowQuestion(qid, as, acc)) :
        qid \in {0, 11}, as \in {<<>>, FlowAnswers}, acc \in {0, 7}}
    \cup {SOItem("Answer", FlowQuestion(11, <<>>, 0))}

RefLists == {<<>>, <<Ref(4, 55555), Ref(1, 42)>>, <<Ref(2, 0)>>}

\* The texts so_search may return: none, null, text that is no JSON (with
\* or without question references in it), and envelopes; a short envelope
\* may come with a /questions/ link in its text.
SearchTexts ==
    {NoText, Text("null", <<>>, <<>>)}
    \cup {Text("invalid", <<>>, refs) : refs \in RefLists}
    \cup {Text("object", items, <<>>) :
            items \in SeqsUpTo(FlowItems, MaxFlowItems)}
    \cup {Text("object", items, <<Ref(2, 11)>>) :
            items \in SeqsUpTo(FlowItems, 1)}

FetchTexts ==
    {NoText, Text("null", <<>>, <<>>), Text("invalid", <<>>, <<>>)}
    \cup {Text("object", items, <<>>) : items \in SeqsUpTo(FlowItems, 1)}

\* What c.CallTool returns: a failure (the transport, the deadline of the
\* context, or a result marked IsError), or the text of the result.
ToolResults(texts) ==
    {[err |-> e, text |-> NoText] : e \in {"tool error", "deadline exceeded"}}
    \cup {[err |-> "", text |-> t] : t \in texts}

Queries == {<<"reverse", "string", "Golang">>, <<"center", "div">>}

\* The lines read at the prompt, trimmed, as their words.
Lines == {<<>>, <<"quit">>, <<"exit">>, <<"q">>} \cup Queries

\* The lines read after an answer, trimmed and lowered.
PostLines == {<<>>, <<"n">>, <<"q">>, <<"x">>}

----------------------------------------------------------------------------
(* The steps of the commands.                                               *)

Init ==
    /\ pc = "start"
    /\ prog \in {"repl", "oneshot", "v1"}
    /\ query \in (IF prog = "repl" THEN {<<>>} ELSE Queries)
    /\ client = "none" /\ queryNo = 0 /\ calls = <<>> /\ out = <<>>
    /\ searchText = NoText /\ parseErr = FALSE /\ fetch = "none"
    /\ retval = "none" /\ views = 0
    /\ input = NoInput /\ ctxLeft = 0 /\ opens = 0 /\ closes = 0
    /\ BestIdle
    /\ FormatIdle
    /\ PureIdle

\* The locals of the query that returned are gone: the text, the envelope
\* built from it and what was selected.  What the query called, showed and
\* returned stays on record.
Forget(s) ==
    [s EXCEPT !.searchText = NoText, !.parseErr = FALSE, !.resp = Nil,
              !.tagHints = <<>>, !.best = NilPtr, !.fetch = "none",
              !.q = NilQuestion, !.doc = <<>>]

\* The locals of a query that starts: so_search is called.
Search(s, words) ==
    [Forget(s) EXCEPT !.pc = "search", !.out = <<>>, !.retval = "none",
                      !.calls = <<ToolCall("so_search", words, "", 0)>>]

\* part_000:29-56: what NewClient may do.  The subprocess is not spawned
\* (npx missing, or another failure), or it is spawned and the handshake
\* fails, or the client is returned.
Outcomes == {"connected", "npx not found", "spawn failed", "handshake failed"}

\* NewClient took c minutes of a context of t minutes: the handshake fails
\* when the context expires.
MayConnect(outcome, c, t) == c >= t => outcome # "connected"

\* part_000:29-56: NewClient returned the client.
Connected(s) == [s EXCEPT !.client = "open", !.opens = @ + 1]

\* part_001:190-202 and 505-521: NewClient failed; the client process is
\* closed if it had been spawned (part_000:50-52).
ConnectFailed(s, outcome) ==
    LET title == IF outcome = "npx not found" THEN "Node.js not found"
                 ELSE IF prog = "v1" THEN "Failed to start MCP server"
                 ELSE "Connection failed"
        s1 == [Shows(s, "error", title) EXCEPT !.pc = "exit", !.retval = "err"]
    IN  IF outcome = "handshake failed"
        THEN [s1 EXCEPT !.client = "closed", !.opens = @ + 1, !.closes = @ + 1]
        ELSE s1

\* part_001:174-216: runAsk connects, then searches (arguments given) or
\* prompts.
runAsk ==
    /\ pc = "start" /\ prog \in {"repl", "oneshot"}
    /\ \E outcome \in Outcomes, c \in 0..connectTimeout :
         /\ MayConnect(outcome, c, connectTimeout)
         /\ IF outcome = "connected"
            THEN IF prog = "oneshot"
                 THEN /\ Becomes(Search([Connected(Cur) EXCEPT
                                            !.ctxLeft = queryTimeout], query))
                      /\ queryNo' = queryNo + 1
                 ELSE /\ Becomes([Connected(Cur) EXCEPT !.pc = "prompt"])
                      /\ UNCHANGED queryNo
            ELSE /\ Becomes(ConnectFailed(Cur, outcome))
                 /\ UNCHANGED queryNo
    /\ UNCHANGED <<prog, query, views, maxAnswers, pureVars>>

\* part_001:225-246: replLoop reads a line: end of input or an exit keyword
\* ends the session, a blank line prompts again, anything else is a query.
replLoop ==
    /\ pc = "prompt"
    /\ \E eof \in BOOLEAN, line \in Lines :
         LET s == [Forget(Cur) EXCEPT
                      !.input = [at |-> "ask", eof |-> eof,
                                 line |-> IF eof THEN <<>> ELSE line]]
         IN  IF eof \/ line \in {<<"quit">>, <<"exit">>, <<"q">>}
             THEN /\ Becomes(Close([s EXCEPT !.pc = "exit", !.retval = "nil"]))
                  /\ UNCHANGED <<query, queryNo, views>>
             ELSE IF line = <<>>
             THEN /\ Becomes(s)
                  /\ UNCHANGED <<query, queryNo, views>>
             ELSE /\ queryNo < MaxQueries
                  /\ Becomes(Search([s EXCEPT !.ctxLeft = queryTimeout], line))
                  /\ query' = line
                  /\ queryNo' = queryNo + 1
                  /\ views' = 0
    /\ UNCHANGED <<prog, maxAnswers, pureVars>>

\* The results c.CallTool may return after d minutes: the deadline error
\* exactly when the context expires first.
Timely(r, d) == (r.err = "deadline exceeded") <=> (d >= ctxLeft)

\* part_001:266-305: so_search returns to searchAndDisplay.
searchAndDisplay ==
    /\ pc = "search" /\ prog \in {"repl", "oneshot"}
    /\ \E r \in ToolResults(SearchTexts), d \in 0..MaxDuration :
         /\ Timely(r, d)
         /\ Becomes(afterSearch(Elapse(Cur, d), r))
    /\ UNCHANGED <<prog, query, queryNo, views, maxAnswers, pureVars>>

\* part_001:328-342: get_content returns to fetchAcceptedAnswer.
fetchAcceptedAnswer ==
    /\ pc = "fetchAnswer"
    /\ \E r \in ToolResults(FetchTexts), d \in 0..MaxDuration :
         /\ Timely(r, d)
         /\ Becomes(afterFetch(Elapse(Cur, d), r))
    /\ UNCHANGED <<prog, query, queryNo, views, maxAnswers, pureVars>>

\* part_001:355-382: the user picks an answer, which is shown, or
\* interrupts the selection, which ends the query.
answerSelectionLoop_Select ==
    /\ pc = "select"
    /\ \/ /\ Becomes(Returns(Cur, "nil"))
          /\ UNCHANGED views
       \/ /\ views < MaxAnswerViews
          /\ Becomes([Shows(Cur, "answer", "") EXCEPT !.pc = "postAnswer"])
          /\ views' = views + 1
    /\ UNCHANGED <<prog, query, queryNo, maxAnswers, pureVars>>

\* part_001:384-395: after an answer a line is read, trimmed and lowered;
\* n or q ends the query and anything else returns to the list.  The error
\* of the read is dropped: the end of input reads as the empty line.
answerSelectionLoop_Input ==
    /\ pc = "postAnswer"
    /\ \E l \in PostLines :
         LET s == [Cur EXCEPT !.input = [at |-> "post", eof |-> FALSE,
                                         line |-> l]]
         IN  IF l \in {<<"n">>, <<"q">>}
             THEN Becomes(Returns(s, "nil"))
             ELSE Becomes([s EXCEPT !.pc = "select"])
    /\ UNCHANGED <<prog, query, queryNo, views, maxAnswers, pureVars>>

\* part_001:479-532: the one-shot runAsk connects and calls so_search
\* under the context it connected with.
runAskV1 ==
    /\ pc = "start" /\ prog = "v1"
    /\ \E outcome \in Outcomes, c \in 0..ctxTimeoutV1 :
         /\ MayConnect(outcome, c, ctxTimeoutV1)
         /\ IF outcome = "connected"
            THEN /\ Becomes(Search([Connected(Cur) EXCEPT
                                       !.ctxLeft = ctxTimeoutV1 - c], query))
                 /\ queryNo' = queryNo + 1
            ELSE /\ Becomes(ConnectFailed(Cur, outcome))
                 /\ UNCHANGED queryNo
    /\ UNCHANGED <<prog, query, views, maxAnswers, pureVars>>

\* part_001:530-589: so_search returns to the one-shot runAsk.
runAskV1_Search ==
    /\ pc = "search" /\ prog = "v1"
    /\ \E r \in ToolResults(SearchTexts), d \in 0..MaxDuration :
         /\ Timely(r, d)
         /\ Becomes(afterSearchV1(Elapse(Cur, d), r))
    /\ UNCHANGED <<prog, query, queryNo, views, maxAnswers, pureVars>>

\* part_001:601-626: get_content returns to fetchAndRender.
fetchAndRender_Return ==
    /\ pc = "fetchQuestion"
    /\ \E r \in ToolResults(FetchTexts), d \in 0..MaxDuration :
         /\ Timely(r, d)
         /\ Becomes(afterFetchV1(Elapse(Cur, d), r))
    /\ UNCHANGED <<prog, query, queryNo, views, maxAnswers, pureVars>>

Next ==
    \/ runAsk
    \/ replLoop
    \/ searchAndDisplay
    \/ fetchAcceptedAnswer
    \/ answerSelectionLoop_Select
    \/ answerSelectionLoop_Input
    \/ runAskV1
    \/ runAskV1_Search
    \/ fetchAndRender_Return

Spec == Init /\ [][Next]_vars

----------------------------------------------------------------------------
(* Properties of the query flow.                                            *)

\* The function answering the query has returned.
QueryEnded == pc \in {"prompt", "exit"} /\ queryNo > 0

HasShown(kind) == \E i \in 1..Len(out) : out[i].kind = kind

HasShownError(title) ==
    \E i \in 1..Len(out) : out[i].kind = "error" /\ out[i].text = title

\* C8: a query makes at most two tool calls, in sequence: first one
\* so_search, then at most one get_content, made only after the search
\* returned successfully; nothing follows a call that failed.
C8_CallSequence ==
    /\ Len(calls) <= 2
    /\ (queryNo = 0) <=> (calls = <<>>)
    /\ Len(calls) >= 1 => calls[1].tool = "so_search"
    /\ Len(calls) >= 2 => /\ calls[2].tool = "get_content"
                          /\ calls[1].state = "ok"
    /\ \A i \in 1..Len(calls) : calls[i].state # "ok" => i = Len(calls)
    /\ QueryEnded => \A i \in 1..Len(calls) : calls[i].state # "pending"

\* C8 witness: a query ended after its get_content call failed, with the
\* two calls made and no third.
C8_Witness ==
    /\ QueryEnded
    /\ Len(calls) = 2
    /\ calls[1].tool = "so_search" /\ calls[1].state = "ok"
    /\ calls[2].tool = "get_content" /\ calls[2].state = "failed"

FetchFailed == fetch \in {"callError", "emptyText", "parseError", "noItems"}

\* The answers the selected question had when the search response was
\* parsed.
AnswersAsParsed == ParseResponse(searchText).resp.Items[best].Data.Answers

\* C10 as claimed: a failed supplementary fetch is silent: no error is
\* shown, the selected question's answers are unchanged and the question is
\* displayed.
C10_FetchFailureSilent ==
    FetchFailed =>
        /\ ~HasShown("error")
        /\ HasShown("header") \/ HasShown("question")
        /\ resp.Items[best].Data.Answers = AnswersAsParsed

\* C10 amended: in searchAndDisplay a failed fetch of the accepted answer
\* is silent: no error is shown, the selected question's answers are
\* unchanged and its header is displayed.  In the one-shot runAsk of
\* part_001:479 a failed fetchAndRender is not silent and the question is
\* not displayed: a failed call or an empty text is reported as an error
\* and returned, a text that does not parse or has no items is printed raw.
C10_FetchFailureHandled ==
    FetchFailed =>
        /\ prog \in {"repl", "oneshot"} =>
             /\ ~HasShown("error")
             /\ HasShown("header")
             /\ resp.Items[best].Data.Answers = AnswersAsParsed
        /\ prog = "v1" =>
             /\ QueryEnded
             /\ ~HasShown("question") /\ ~HasShown("header")
             /\ fetch = "callError" =>
                  HasShownError("Failed to fetch question") /\ retval = "err"
             /\ fetch = "emptyText" =>
                  HasShownError("Empty response") /\ retval = "err"
             /\ fetch \in {"parseError", "noItems"} =>
                  out[Len(out)].kind = "raw" /\ retval = "nil"

\* C10 witness: in the read-loop the get_content call failed, the header of
\* the question was shown without an answer, and the prompt is back.
C10_Witness ==
    /\ prog = "repl" /\ pc = "prompt"
    /\ fetch = "callError"
    /\ HasShown("header") /\ ~HasShown("error")
    /\ resp.Items[best].Data.Answers = <<>>

\* The words that end the read-loop (part_001:237).
ExitWords == {<<"quit">>, <<"exit">>, <<"q">>}

\* C11: in the read-loop no step of a query ends the session: a query that
\* shows an error (search failed, no results) is followed by the prompt,
\* and the session ends only from the prompt, on an exit keyword or the end
\* of input.
C11_LoopSurvivesFailures ==
    [][prog = "repl" =>
        /\ pc \in {"search", "fetchAnswer", "select", "postAnswer"}
              => pc' # "exit" /\ client' = "open"
        /\ pc = "search" /\ HasShown("error")' => pc' = "prompt"
        /\ pc = "prompt" /\ pc' = "exit"
              => /\ input'.at = "ask"
                 /\ input'.eof \/ input'.line \in ExitWords
        /\ pc = "prompt" /\ input'.at = "ask"
             /\ (input'.eof \/ input'.line \in ExitWords) => pc' = "exit"]_vars

\* C11 witness: the read-loop is at the prompt, connected, after a query
\* whose search failed.
C11_Witness ==
    /\ prog = "repl" /\ pc = "prompt" /\ client = "open"
    /\ queryNo > 0 /\ retval = "err"
    /\ HasShownError("Search failed")

\* C12 as claimed: every tool call runs under a deadline of its own, so it
\* has the whole timeout whatever the connection or the call before it
\* took.
C12_IndependentDeadlines ==
    \A i \in 1..Len(calls) :
        calls[i].state # "pending" =>
            calls[i].limit = IF prog = "v1" THEN ctxTimeoutV1 ELSE queryTimeout

\* C18 as claimed: in the read-loop q ends the session at the question
\* prompt and at the prompt after an answer, and n after an answer returns
\* to the question prompt.
C18_QuitEndsSession ==
    prog = "repl" =>
        /\ input.at = "ask" /\ input.line = <<"q">> => pc = "exit"
        /\ input.at = "post" /\ input.line = <<"q">> => pc = "exit"
        /\ input.at = "post" /\ input.line = <<"n">> => pc = "prompt"

\* C19: the client is opened at most once and never leaked: a failed
\* handshake closes the spawned process and no query starts; a connected
\* client serves every query and is closed once when the command ends; a
\* tool call is in flight only on the open client.
C19_ClientLifecycle ==
    /\ opens <= 1 /\ closes <= opens
    /\ (client = "open") <=> (opens = 1 /\ closes = 0)
    /\ (client = "closed") <=> (opens = 1 /\ closes = 1)
    /\ pc = "exit" => closes = opens
    /\ pc \notin {"start", "exit"} => client = "open"
    /\ queryNo > 0 => opens = 1
    /\ queryNo = 0 /\ pc = "exit" => calls = <<>>
    /\ \A i \in 1..Len(calls) : calls[i].state = "pending" => client = "open"

\* C19 witness: a session of two queries has ended, with one client opened
\* and closed once.
C19_Witness ==
    /\ prog = "repl" /\ pc = "exit" /\ queryNo = 2
    /\ opens = 1 /\ closes = 1 /\ client = "closed"

----------------------------------------------------------------------------
(* formatNumber (parse.go:313-328).  A string is the sequence of its        *)
(* characters.  Go's int is modelled with IntBits bits, two's complement:   *)
(* the arithmetic wraps as Go's does, at a width whose ends can be          *)
(* enumerated.                                                              *)

IntBits == 20
MaxNumber == 1100
MaxStack == 3

MinInt == -(2 ^ (IntBits - 1))

MaxInt == 2 ^ (IntBits - 1) - 1

\* The value an int holds after an operation whose exact result is x.
Wrap(x) == ((x + 2 ^ (IntBits - 1)) % (2 ^ IntBits)) - 2 ^ (IntBits - 1)

DigitChar(d) == <<"0", "1", "2", "3", "4", "5", "6", "7", "8", "9">>[d + 1]

\* fmt.Sprintf("%d", n) for n >= 0.
RECURSIVE Sprintf_d(_)
Sprintf_d(n) ==
    IF n < 10 THEN <<DigitChar(n)>>
    ELSE Sprintf_d(n \div 10) \o <<DigitChar(n % 10)>>

\* parse.go:322-325: the loop cutting groups of three from the right.
RECURSIVE groupLoop(_, _)
groupLoop(s, parts) ==
    IF Len(s) > 3
    THEN groupLoop(SubSeq(s, 1, Len(s) - 3),
                   <<SubSeq(s, Len(s) - 2, Len(s))>> \o parts)
    ELSE <<s>> \o parts

\* strings.Join(parts, ",").
RECURSIVE Join(_)
Join(parts) ==
    IF Len(parts) = 1 THEN parts[1]
    ELSE parts[1] \o <<",">> \o Join(Tail(parts))

\* What a call leaves when the goroutine's stack is exhausted: the runtime
\* ends the program.
StackOverflow == <<"fatal error: stack overflow">>

\* formatNumber at the given depth of the call stack.  -n is computed in
\* int, so it wraps.
RECURSIVE formatNumberAt(_, _)
formatNumberAt(n, depth) ==
    IF depth > MaxStack THEN StackOverflow
    ELSE IF n < 0
    THEN LET r == formatNumberAt(Wrap(-n), depth + 1)
         IN  IF r = StackOverflow THEN StackOverflow ELSE <<"-">> \o r
    ELSE LET s == Sprintf_d(n)
         IN  IF Len(s) <= 3 THEN s ELSE Join(groupLoop(s, <<>>))

formatNumber(n) == formatNumberAt(n, 1)

\* The arguments drawn: small numbers of either sign, the examples, and the
\* ends of the int range.
NumberInputs ==
    (-MaxNumber..MaxNumber)
    \cup {999, 1000, 178410, -42000, MaxInt, MinInt + 1, MinInt}

InitNumber ==
    /\ pc = "call"
    /\ num \in NumberInputs
    /\ numText = <<>> /\ questionID = NoID /\ maxResults = 0 /\ listing = <<>>
    /\ BestIdle
    /\ FormatIdle
    /\ FlowIdle

CallformatNumber ==
    /\ pc = "call"
    /\ numText' = formatNumber(num)
    /\ pc' = "returned"
    /\ UNCHANGED <<bestVars, formatVars, flowVars, num, questionID,
                   maxResults, listing>>

NextNumber == CallformatNumber

SpecNumber == InitNumber /\ [][NextNumber]_vars

\* The decimal digits of m >= 0 in groups of three from the right.
RECURSIVE Grouped(_)
Grouped(m) ==
    IF m < 1000 THEN Sprintf_d(m)
    ELSE Grouped(m \div 1000)
         \o <<",", DigitChar((m \div 100) % 10), DigitChar((m \div 10) % 10),
              DigitChar(m % 10)>>

\* C13 as claimed: for every int n formatNumber returns the grouped digits
\* of |n|, after "-" exactly when n < 0.
C13_FormatNumber ==
    pc = "returned" =>
        numText = IF num < 0 THEN <<"-">> \o Grouped(-num) ELSE Grouped(num)

----------------------------------------------------------------------------
(* The ExtractQuestionID harness.  A text is the sequence of the places     *)
(* where a pattern matches, in text order; pattern 0 stands for text that   *)
(* matches no pattern (a "question: 123" of fewer than five digits is       *)
(* such).                                                                   *)

MaxRefs == 3

RefTokens ==
    {Ref(0, 0)}
    \cup {Ref(pat, id) : pat \in 1..3, id \in {42, 55555}}
    \cup {Ref(4, id) : id \in {55555, 66666}}

ExtractTexts ==
    {Text("invalid", <<>>, refs) : refs \in SeqsUpTo(RefTokens, MaxRefs)}

InitExtract ==
    /\ pc = "call"
    /\ searchText \in ExtractTexts
    /\ prog = "none" /\ client = "none" /\ queryNo = 0 /\ query = <<>>
    /\ calls = <<>> /\ out = <<>> /\ parseErr = FALSE
    /\ fetch = "none" /\ retval = "none" /\ views = 0
    /\ input = NoInput /\ ctxLeft = 0 /\ opens = 0 /\ closes = 0
    /\ BestIdle
    /\ FormatIdle
    /\ PureIdle

CallExtractQuestionID ==
    /\ pc = "call"
    /\ questionID' = ExtractQuestionID(searchText)
    /\ pc' = "returned"
    /\ UNCHANGED <<bestVars, formatVars, flowVars, num, numText,
                   maxResults, listing>>

NextExtract == CallExtractQuestionID

SpecExtract == InitExtract /\ [][NextExtract]_vars

\* The patterns that match somewhere in the text.
Matched(text) == {text.refs[i].pat : i \in 1..Len(text.refs)} \cap (1..4)

\* The place of the first match of pattern pat.
FirstMatch(text, pat) ==
    CHOOSE i \in 1..Len(text.refs) :
        /\ text.refs[i].pat = pat
        /\ \A j \in 1..(i - 1) : text.refs[j].pat # pat

----------------------------------------------------------------------------
(* FormatSearchResults (parse.go:268-301).  The document is the sequence of *)
(* what is written: the literal, or the heading and one entry per item      *)
(* shown, with the fields the entry prints.                                 *)

NoResultsFound == <<[kind |-> "literal", text |-> "No results found."]>>

\* ResultsShown ignoring maxResults.
ResultsShown_All(n, max) == n

\* parse.go:276-279: shown.
ResultsShown(n, max) == IF max <= 0 \/ max > n THEN n ELSE max

\* parse.go:282-297: the entry of resp.Items[i], numbered i.
ResultEntry(r, i) ==
    LET d == r.Items[i].Data
    IN  [kind |-> "entry", n |-> i, accepted |-> d.IsAnswered,
         score |-> d.Score, answers |-> d.AnswerCount, tags |-> d.Tags,
         link |-> d.Link]

FormatSearchResults(r, max) ==
    IF r.nil \/ Len(r.Items) = 0 THEN NoResultsFound
    ELSE <<[kind |-> "heading", text |-> "Stack Overflow Search Results"]>>
         \o [i \in 1..ResultsShown(Len(r.Items), max) |-> ResultEntry(r, i)]

InitResults ==
    /\ pc = "call"
    /\ resp \in Responses
    /\ maxResults \in -1..(MaxItems + 1)
    /\ tagHints = <<>> /\ best = NilPtr
    /\ num = 0 /\ numText = <<>> /\ questionID = NoID /\ listing = <<>>
    /\ FormatIdle
    /\ FlowIdle

CallFormatSearchResults ==
    /\ pc = "call"
    /\ listing' = FormatSearchResults(resp, maxResults)
    /\ pc' = "returned"
    /\ UNCHANGED <<bestVars, formatVars, flowVars, num, numText, questionID,
                   maxResults>>

NextResults == CallFormatSearchResults

SpecResults == InitResults /\ [][NextResults]_vars

\* The entries of the listing, in order.
Entries == SelectSeq(listing, LAMBDA b : b.kind = "entry")

\* C15: FormatSearchResults returns exactly "No results found." for a nil
\* envelope or one without items; otherwise k numbered entries, k being
\* maxResults when 0 < maxResults <= the item count and the item count
\* otherwise, entry i describing the i-th item.
C15_SearchResults ==
    pc = "returned" =>
        IF resp.nil \/ Len(resp.Items) = 0
        THEN listing = <<[kind |-> "literal", text |-> "No results found."]>>
        ELSE LET k == IF 0 < maxResults /\ maxResults <= Len(resp.Items)
                      THEN maxResults ELSE Len(resp.Items)
             IN  /\ Len(listing) = k + 1
                 /\ Len(Entries) = k
                 /\ \A i \in 1..k :
                        /\ Entries[i].n = i
                        /\ Entries[i].score = resp.Items[i].Data.Score
                        /\ Entries[i].accepted = resp.Items[i].Data.IsAnswered
                        /\ Entries[i].answers = resp.Items[i].Data.AnswerCount
                        /\ Entries[i].tags = resp.Items[i].Data.Tags
                        /\ Entries[i].link = resp.Items[i].Data.Link

\* C15 witness: more items than maxResults, and maxResults entries.
C15_Witness ==
    /\ pc = "returned"
    /\ ~resp.nil
    /\ 0 < maxResults /\ maxResults < Len(resp.Items)
    /\ Len(Entries) = maxResults
    /\ resp.Items[1].Data # resp.Items[2].Data

----------------------------------------------------------------------------
(* The answer section and the call-to-action of FormatQuestionMarkdown.     *)

\* C16: the document of a question has the answer section exactly when the
\* embedded answers are not empty, and the call-to-action exactly when they
\* are empty, answer_count > 0 and the link is not empty; never both.  The
\* call-to-action states the count, "answer" for a count of 1 and "answers"
\* otherwise, and the link.
C16_SectionOrCallToAction ==
    (pc = "returned" /\ ~q.nil) =>
        LET v == q.v
            section == Len(BlocksOf(doc, "heading"))
            cta == BlocksOf(doc, "cta")
            ctaLink == BlocksOf(doc, "ctaLink")
        IN  /\ section + Len(cta) <= 1
            /\ Len(ctaLink) = Len(cta)
            /\ section = 1 <=> Len(v.Answers) > 0
            /\ Len(BlocksOf(doc, "answer")) > 0 <=> Len(v.Answers) > 0
            /\ Len(cta) = 1 <=>
                  (Len(v.Answers) = 0 /\ v.AnswerCount > 0 /\ v.Link # "")
            /\ Len(cta) = 1 =>
                  /\ cta[1].n = v.AnswerCount
                  /\ cta[1].text = "answer" <=> v.AnswerCount = 1
                  /\ cta[1].text = "answers" <=> v.AnswerCount # 1
                  /\ ctaLink[1].text = v.Link

\* C16 witness: a question without embedded answers, answer_count 1 and a
\* link: the call-to-action says "1 answer".
C16_Witness ==
    /\ pc = "returned" /\ ~q.nil
    /\ q.v.Answers = <<>> /\ q.v.AnswerCount = 1 /\ q.v.Link # ""
    /\ Len(BlocksOf(doc, "cta")) = 1
    /\ BlocksOf(doc, "cta")[1].text = "answer"
    /\ BlocksOf(doc, "heading") = <<>>

----------------------------------------------------------------------------
(* The envelope and its payloads through a query.                           *)

\* The envelope built from the text of the search.
Parsed == ParseResponse(searchText).resp

\* C17: BestQuestion, FormatQuestionMarkdown and FormatSearchResults leave
\* the envelope as it was parsed: the items in their order, each payload
\* with its answers in their order.  The one change in a query is the
\* answer appended to the selected question, once, after a supplementary
\* fetch that succeeded.
C17_InputsUntouched ==
    ~resp.nil =>
        /\ ~Parsed.nil
        /\ Len(resp.Items) = Len(Parsed.Items)
        /\ \A i \in 1..Len(resp.Items) :
              IF fetch = "appended" /\ i = best
              THEN LET as == resp.Items[i].Data.Answers
                   IN  /\ Len(as) = Len(Parsed.Items[i].Data.Answers) + 1
                       /\ resp.Items[i] =
                            [Parsed.Items[i] EXCEPT
                                !.Data.Answers = Append(@, as[Len(as)])]
                       /\ Len(calls) = 2 /\ calls[2].state = "ok"
                       /\ prog \in {"repl", "oneshot"}
              ELSE resp.Items[i] = Parsed.Items[i]

\* C17 witness: two items, the lower-scored first; the second was selected
\* by BestQuestion and the fetched answer appended to it; the first is as
\* parsed and still first.
C17_Witness ==
    /\ ~resp.nil /\ Len(resp.Items) = 2
    /\ resp.Items[1].Data.Score < resp.Items[2].Data.Score
    /\ best = 2 /\ fetch = "appended"
    /\ Len(resp.Items[2].Data.Answers) = 1
    /\ resp.Items[1] = Parsed.Items[1]

====
